---------------------------- MODULE Spec2Model ----------------------------
(***************************************************************************)
(* The preload bridge of src/background/preload.ts: the five functions of  *)
(* `api`, the reply listeners they register with ipcRenderer.on, and the   *)
(* promises those listeners settle.                                        *)
(*                                                                         *)
(* JavaScript values are written as strings holding their literal:         *)
(* "undefined", "null", "0", "''", "true", "false", an object, an Error.   *)
(* Truthiness and `!= null` are computed on them as JavaScript does.       *)
(*                                                                         *)
(* The renderer is single-threaded: an api call runs to completion before  *)
(* any reply is dispatched.  A request-response call is modelled in its two*)
(* statements (ipcRenderer.send, then ipcRenderer.on); `registering` holds *)
(* the call that is between them, and no reply is dispatched and no other  *)
(* call starts while it is set.  The privileged process runs concurrently. *)
(*                                                                         *)
(* Messages from the privileged process arrive in the order they were sent.*)
(* As that process may send any reply at any time, every order of delivery *)
(* is the send order of some behaviour.                                    *)
(*                                                                         *)
(* The bootstrap of the renderer, Main of src/apps/seelen_rofi/index.tsx,  *)
(* is modelled in `main` and has a specification of its own, MainSpec: it  *)
(* runs in another window than the bridge.                                 *)
(***************************************************************************)
EXTENDS Naturals, Sequences, FiniteSets, TLC

VARIABLES
    calls,        \* the promises created by request-response calls, by call id
    listeners,    \* reply channel -> the listeners registered on it (call ids)
    sent,         \* the messages ipcRenderer.send has sent, in order
    registering,  \* the call between its send and its on (0: none)
    trace,        \* history: the api invocations, with what each returned
    replies,      \* the messages the privileged process has sent, in order
    delivered,    \* how many of `replies` were dispatched to the listeners
    main          \* the bootstrap Main() of the renderer

bridgeVars == <<calls, listeners, sent, registering, trace, replies, delivered>>

vars == <<calls, listeners, sent, registering, trace, replies, delivered, main>>

----------------------------------------------------------------------------
(* Bounds of the model *)

\* Invocations of the api (each sends one message).
MaxSends == 2

\* Messages the privileged process sends.
MaxReplies == 2

\* Document events dispatched while and after Main runs.
MaxEvents == 5

----------------------------------------------------------------------------
(* JavaScript values *)

Nullish == {"undefined", "null"}

Falsy == Nullish \cup {"false", "0", "''"}

\* if (error)
Truthy(v) == v \notin Falsy

\* result != null
NotNull(v) == v \notin Nullish

Bool(b) == IF b THEN "true" ELSE "false"

\* The payloads callers and the privileged process are drawn from.
Routes == {"undefined", "'theme'"}

Settings == {"{theme:dark}"}

Results == {"undefined", "null", "0", "{theme:dark}"}

Errors == {"undefined", "''", "Error:boom"}

----------------------------------------------------------------------------
(* Channel registry (./constants) *)

Channel ==
    [ENABLE_AUTOSTART     |-> "enable-autostart",
     DISABLE_AUTOSTART    |-> "disable-autostart",
     GET_AUTOSTART_STATUS |-> "get-autostart-status",
     GET_USER_SETTINGS    |-> "get-user-settings",
     SAVE_USER_SETTINGS   |-> "save-user-settings"]

REPLY_BY_CHANNEL ==
    (Channel.GET_AUTOSTART_STATUS :> "get-autostart-status-reply")
    @@ (Channel.GET_USER_SETTINGS :> "get-user-settings-reply")
    @@ (Channel.SAVE_USER_SETTINGS :> "save-user-settings-reply")

RequestResponseChannels == DOMAIN REPLY_BY_CHANNEL

ReplyChannels == {REPLY_BY_CHANNEL[c] : c \in RequestResponseChannels}

----------------------------------------------------------------------------
(* Promises *)

\* Mutant: the promise is born resolved (a default taken before any reply).
M_NewPromise(ch, req, at) ==
    [ch |-> ch, state |-> "resolved", value |-> "undefined",
     req |-> req, at |-> at, by |-> 0]

\* new Promise((resolve, reject) => ...): pending.  `req` is the index in
\* `sent` of the call's request; `at` is the number of replies dispatched
\* before the call was made, `by` the number of the reply at whose dispatch
\* the promise settled (0: none); req, at and by are history.
NewPromise(ch, req, at) ==
    [ch |-> ch, state |-> "pending", value |-> "undefined",
     req |-> req, at |-> at, by |-> 0]

\* Mutant: resolve overwrites a promise that has settled.
M_Resolve(p, v, r) == [p EXCEPT !.state = "resolved", !.value = v, !.by = r]

\* resolve(v) and reject(v): a promise settles once; later calls are ignored.
Resolve(p, v, r) ==
    IF p.state = "pending"
    THEN [p EXCEPT !.state = "resolved", !.value = v, !.by = r]
    ELSE p

Reject(p, v, r) ==
    IF p.state = "pending"
    THEN [p EXCEPT !.state = "rejected", !.value = v, !.by = r]
    ELSE p

----------------------------------------------------------------------------
(* The reply listeners: (e, result, error) => ... *)

\* Mutant: resolve(!!result) instead of resolve(result != null).
M_AutostartStatusListener(p, result, error, r) ==
    IF Truthy(error)
    THEN Reject(p, error, r)
    ELSE Resolve(p, Bool(Truthy(result)), r)

AutostartStatusListener(p, result, error, r) ==
    IF Truthy(error)
    THEN Reject(p, error, r)
    ELSE Resolve(p, Bool(NotNull(result)), r)

\* Mutant: the status listener's resolve(result != null), pasted.
M_UserSettingsListener(p, result, error, r) ==
    IF Truthy(error)
    THEN Reject(p, error, r)
    ELSE Resolve(p, Bool(NotNull(result)), r)

UserSettingsListener(p, result, error, r) ==
    IF Truthy(error)
    THEN Reject(p, error, r)
    ELSE Resolve(p, result, r)

\* Mutant: the settings listener's resolve(result), pasted.
M_SaveSettingsListener(p, result, error, r) ==
    IF Truthy(error)
    THEN Reject(p, error, r)
    ELSE Resolve(p, result, r)

SaveSettingsListener(p, result, error, r) ==
    IF Truthy(error)
    THEN Reject(p, error, r)
    ELSE Resolve(p, "undefined", r)

\* The listener a call of request channel ch registers.
Listener(ch, p, result, error, r) ==
    CASE ch = Channel.GET_AUTOSTART_STATUS -> AutostartStatusListener(p, result, error, r)
      [] ch = Channel.GET_USER_SETTINGS    -> UserSettingsListener(p, result, error, r)
      [] ch = Channel.SAVE_USER_SETTINGS   -> SaveSettingsListener(p, result, error, r)

----------------------------------------------------------------------------
(* State *)

\* Before Main() is called: nothing has run, no promise exists, no handler
\* of document events is registered.
MainInit ==
    [pc |-> "start", log |-> <<>>, hitbox |-> "none", store |-> "none",
     listening |-> FALSE, rendered |-> FALSE, events |-> <<>>]

Init ==
    /\ calls = <<>>
    /\ listeners = [c \in ReplyChannels |-> <<>>]
    /\ sent = <<>>
    /\ registering = 0
    /\ trace = <<>>
    /\ replies = <<>>
    /\ delivered = 0
    /\ main = MainInit

\* The renderer can start an api call: no call is running.
CanCall == registering = 0 /\ Len(trace) < MaxSends

\* ipcRenderer.send(channel, ...args)
IpcSend(ch, args) == sent' = Append(sent, [ch |-> ch, args |-> args])

\* Mutant: the new listener takes the place of those on the channel.
M_IpcOn(ch, id) == listeners' = [listeners EXCEPT ![ch] = <<id>>]

\* ipcRenderer.on(channel, listener): the listener stays until removed.
IpcOn(ch, id) == listeners' = [listeners EXCEPT ![ch] = Append(@, id)]

----------------------------------------------------------------------------
(* Fire-and-forget operations *)

\* Mutant: the call also registers a listener on a reply channel.
M_EnableAutostart ==
    /\ CanCall
    /\ IpcSend(Channel.ENABLE_AUTOSTART, <<>>)
    /\ IpcOn(REPLY_BY_CHANNEL[Channel.GET_AUTOSTART_STATUS], 0)
    /\ trace' = Append(trace, [op |-> "enableAutostart", args |-> <<>>,
                               ret |-> "undefined", call |-> 0])
    /\ UNCHANGED <<main, calls, registering, replies, delivered>>

EnableAutostart ==
    /\ CanCall
    /\ IpcSend(Channel.ENABLE_AUTOSTART, <<>>)
    /\ trace' = Append(trace, [op |-> "enableAutostart", args |-> <<>>,
                               ret |-> "undefined", call |-> 0])
    /\ UNCHANGED <<main, calls, listeners, registering, replies, delivered>>

DisableAutostart ==
    /\ CanCall
    /\ IpcSend(Channel.DISABLE_AUTOSTART, <<>>)
    /\ trace' = Append(trace, [op |-> "disableAutostart", args |-> <<>>,
                               ret |-> "undefined", call |-> 0])
    /\ UNCHANGED <<main, calls, listeners, registering, replies, delivered>>

----------------------------------------------------------------------------
(* Request-response operations: the promise executor's first statement *)

\* return new Promise(... ipcRenderer.send(ch, ...args) ...
StartCall(op, ch, callerArgs, sendArgs) ==
    /\ CanCall
    /\ calls' = Append(calls, NewPromise(ch, Len(sent) + 1, delivered))
    /\ IpcSend(ch, sendArgs)
    /\ registering' = Len(calls) + 1
    /\ trace' = Append(trace, [op |-> op, args |-> callerArgs,
                               ret |-> "promise", call |-> Len(calls) + 1])
    /\ UNCHANGED <<main, listeners, replies, delivered>>

AutostartTaskExist ==
    StartCall("autostartTaskExist", Channel.GET_AUTOSTART_STATUS, <<>>, <<>>)

\* Mutant: the route is not sent.
M_GetUserSettings ==
    \E route \in Routes :
        StartCall("getUserSettings", Channel.GET_USER_SETTINGS, <<route>>, <<>>)

GetUserSettings ==
    \E route \in Routes :
        StartCall("getUserSettings", Channel.GET_USER_SETTINGS, <<route>>, <<route>>)

SaveUserSettings ==
    \E settings \in Settings :
        StartCall("saveUserSettings", Channel.SAVE_USER_SETTINGS, <<settings>>, <<settings>>)

\* Mutant: the call returns without registering its listener.
M_RegisterListener ==
    /\ registering # 0
    /\ registering' = 0
    /\ UNCHANGED <<main, calls, listeners, sent, trace, replies, delivered>>

\* ... ipcRenderer.on(REPLY_BY_CHANNEL[ch], (e, result, error) => ...) })
RegisterListener ==
    /\ registering # 0
    /\ IpcOn(REPLY_BY_CHANNEL[calls[registering].ch], registering)
    /\ registering' = 0
    /\ UNCHANGED <<main, calls, sent, trace, replies, delivered>>

----------------------------------------------------------------------------
(* The privileged process *)

Answered == {replies[i].re : i \in DOMAIN replies}

\* It answers a request it received and has not answered yet.
HandlerReply ==
    /\ Len(replies) < MaxReplies
    /\ \E i \in DOMAIN sent, result \in Results, error \in Errors :
        /\ sent[i].ch \in RequestResponseChannels
        /\ i \notin Answered
        /\ replies' = Append(replies, [ch |-> REPLY_BY_CHANNEL[sent[i].ch],
                                       result |-> result, error |-> error, re |-> i])
    /\ UNCHANGED <<main, calls, listeners, sent, registering, trace, delivered>>

\* It sends a message nobody asked for (re = 0).
HandlerUnsolicited ==
    /\ Len(replies) < MaxReplies
    /\ \E ch \in ReplyChannels, result \in Results, error \in Errors :
        replies' = Append(replies, [ch |-> ch, result |-> result,
                                    error |-> error, re |-> 0])
    /\ UNCHANGED <<main, calls, listeners, sent, registering, trace, delivered>>

----------------------------------------------------------------------------
(* Dispatch of a reply to the listeners of its channel *)

\* Mutant: a message reaches the listeners of every reply channel.
M_ListenersOf(ch) ==
    UNION {{listeners[x][k] : k \in DOMAIN listeners[x]} : x \in ReplyChannels}

ListenersOf(ch) == {listeners[ch][k] : k \in DOMAIN listeners[ch]}

\* Mutant: only the listener registered first on the channel runs.
M_Emit(m, r) ==
    [c \in DOMAIN calls |->
        IF listeners[m.ch] # <<>> /\ c = listeners[m.ch][1]
        THEN Listener(calls[c].ch, calls[c], m.result, m.error, r)
        ELSE calls[c]]

\* The promises after every listener on m.ch has run with (result, error).
Emit(m, r) ==
    [c \in DOMAIN calls |->
        IF c \in ListenersOf(m.ch)
        THEN Listener(calls[c].ch, calls[c], m.result, m.error, r)
        ELSE calls[c]]

\* Mutant: a reply is dispatched although a call is between send and on
\* (as if the call yielded to the event loop there).
M_DeliverReply ==
    /\ delivered < Len(replies)
    /\ delivered' = delivered + 1
    /\ calls' = Emit(replies[delivered + 1], delivered + 1)
    /\ UNCHANGED <<main, listeners, sent, registering, trace, replies>>

DeliverReply ==
    /\ registering = 0
    /\ delivered < Len(replies)
    /\ delivered' = delivered + 1
    /\ calls' = Emit(replies[delivered + 1], delivered + 1)
    /\ UNCHANGED <<main, listeners, sent, registering, trace, replies>>

----------------------------------------------------------------------------

Next ==
    \/ EnableAutostart
    \/ DisableAutostart
    \/ AutostartTaskExist
    \/ GetUserSettings
    \/ SaveUserSettings
    \/ RegisterListener
    \/ HandlerReply
    \/ HandlerUnsolicited
    \/ DeliverReply

Spec == Init /\ [][Next]_vars

\* The privileged process keeps its contract: it sends one reply for every
\* request it received and nothing else.  A call that has sent its request
\* goes on to register its listener; every request is answered in the end
\* and every reply sent is dispatched in the end.
ContractNext ==
    \/ EnableAutostart
    \/ DisableAutostart
    \/ AutostartTaskExist
    \/ GetUserSettings
    \/ SaveUserSettings
    \/ RegisterListener
    \/ HandlerReply
    \/ DeliverReply

LiveSpec ==
    /\ Init
    /\ [][ContractNext]_vars
    /\ WF_vars(RegisterListener)
    /\ WF_vars(HandlerReply)
    /\ WF_vars(DeliverReply)

----------------------------------------------------------------------------
(* The bootstrap: async function Main(), one action per turn of the event  *)
(* loop.  main.log lists the functions Main has called, in order; hitbox   *)
(* and store are the promises of declareDocumentAsLayeredHitbox() and      *)
(* initStore(): "none" before the call, then "pending", then "resolved" or *)
(* "rejected", or pending for ever.  A function Main calls may throw,      *)
(* which rejects Main's promise: pc = "failed".                            *)

\* Mutant: the await of declareDocumentAsLayeredHitbox() is missing.
M_MainStart ==
    /\ main.pc = "start"
    /\ main' = [main EXCEPT
                    !.log = <<"wrapConsole", "declareDocumentAsLayeredHitbox", "initStore">>,
                    !.hitbox = "pending", !.store = "pending", !.pc = "awaitStore"]
    /\ UNCHANGED bridgeVars

\* Main(): wrapConsole(); await declareDocumentAsLayeredHitbox()
MainStart ==
    /\ main.pc = "start"
    /\ \/ main' = [main EXCEPT !.log = <<"wrapConsole">>, !.pc = "failed"]
       \/ main' = [main EXCEPT
                       !.log = <<"wrapConsole", "declareDocumentAsLayeredHitbox">>,
                       !.hitbox = "pending", !.pc = "awaitHitbox"]
    /\ UNCHANGED bridgeVars

\* The promise of declareDocumentAsLayeredHitbox() settles.
HitboxSettles ==
    /\ main.hitbox = "pending"
    /\ \E outcome \in {"resolved", "rejected"} :
          main' = [main EXCEPT !.hitbox = outcome]
    /\ UNCHANGED bridgeVars

\* Main resumes after the first await: await initStore()
MainAfterHitbox ==
    /\ main.pc = "awaitHitbox"
    /\ main.hitbox # "pending"
    /\ IF main.hitbox = "rejected"
       THEN main' = [main EXCEPT !.pc = "failed"]
       ELSE main' = [main EXCEPT !.log = Append(@, "initStore"),
                                 !.store = "pending", !.pc = "awaitStore"]
    /\ UNCHANGED bridgeVars

\* The promise of initStore() settles.
StoreSettles ==
    /\ main.store = "pending"
    /\ \E outcome \in {"resolved", "rejected"} :
          main' = [main EXCEPT !.store = outcome]
    /\ UNCHANGED bridgeVars

\* Main resumes after the second await:
\* registerDocumentEvents(); createRoot(getRootContainer()).render(...)
MainAfterStore ==
    /\ main.pc = "awaitStore"
    /\ main.store # "pending"
    /\ IF main.store = "rejected"
       THEN main' = [main EXCEPT !.pc = "failed"]
       ELSE \/ main' = [main EXCEPT !.log = Append(@, "registerDocumentEvents"),
                                    !.pc = "failed"]
            \/ main' = [main EXCEPT
                            !.log = @ \o <<"registerDocumentEvents", "render">>,
                            !.listening = TRUE, !.pc = "failed"]
            \/ main' = [main EXCEPT
                            !.log = @ \o <<"registerDocumentEvents", "render">>,
                            !.listening = TRUE, !.rendered = TRUE, !.pc = "done"]
    /\ UNCHANGED bridgeVars

\* A document event is dispatched: handled if handlers are registered.
DocumentEvent ==
    /\ Len(main.events) < MaxEvents
    /\ main' = [main EXCEPT
                    !.events = Append(@, IF main.listening THEN "handled" ELSE "ignored")]
    /\ UNCHANGED bridgeVars

MainNext ==
    \/ MainStart
    \/ HitboxSettles
    \/ MainAfterHitbox
    \/ StoreSettles
    \/ MainAfterStore
    \/ DocumentEvent

MainSpec == Init /\ [][MainNext]_vars

----------------------------------------------------------------------------
(* Vocabulary of the properties *)

Settled(c) == calls[c].state # "pending"

CallsOn(ch) == {c \in DOMAIN calls : calls[c].ch = ch}

\* A payload that is not there: undefined or null.
Absent(v) == v \in Nullish

\* The replies dispatched on call c's reply channel since c was made.
RepliesHeard(c) ==
    {i \in (calls[c].at + 1)..delivered : replies[i].ch = REPLY_BY_CHANNEL[calls[c].ch]}

HasReply(c) == RepliesHeard(c) # {}

FirstReply(c) == CHOOSE i \in RepliesHeard(c) : \A j \in RepliesHeard(c) : i <= j

\* The reply the privileged process sent for call c's request has been dispatched.
OwnReplyDelivered(c) == \E i \in 1..delivered : replies[i].re = calls[c].req

\* The privileged process kept its contract: every message it sent answers
\* a request (and HandlerReply answers each request once).
HandlerKeptContract == \A i \in DOMAIN replies : replies[i].re # 0

----------------------------------------------------------------------------
(* C1: for any interleaving of invocations of one request-response         *)
(* operation and of replies (each answering one request), one reply        *)
(* settles one pending call: no reply settles two calls, and every call is *)
(* settled by the reply sent for its own request.                          *)
C1_OneReplyOneCall ==
    HandlerKeptContract =>
        /\ \A c \in DOMAIN calls :
              Settled(c) => replies[calls[c].by].re = calls[c].req
        /\ \A c1, c2 \in DOMAIN calls :
              (c1 # c2 /\ Settled(c1) /\ Settled(c2)) => calls[c1].by # calls[c2].by

----------------------------------------------------------------------------
(* C2 as stated: for every request-response operation, the first reply     *)
(* dispatched after the invocation, carrying a result and no error,        *)
(* resolves the promise with exactly that result.                          *)
C2_EveryOperationReturnsPayload ==
    \A c \in DOMAIN calls :
        (HasReply(c) /\ Absent(replies[FirstReply(c)].error)) =>
            /\ calls[c].state = "resolved"
            /\ calls[c].value = replies[FirstReply(c)].result

(* C2 as amended: getUserSettings is the operation that hands the payload  *)
(* through: the first reply dispatched after its invocation, carrying a    *)
(* result and no error, resolves the promise with exactly that result.     *)
C2_GetUserSettingsReturnsPayload ==
    \A c \in CallsOn(Channel.GET_USER_SETTINGS) :
        (HasReply(c) /\ Absent(replies[FirstReply(c)].error)) =>
            /\ calls[c].state = "resolved"
            /\ calls[c].value = replies[FirstReply(c)].result

C2_Witness ==
    \E c \in CallsOn(Channel.GET_USER_SETTINGS) :
        /\ HasReply(c)
        /\ replies[FirstReply(c)].result = "{theme:dark}"
        /\ Absent(replies[FirstReply(c)].error)
        /\ calls[c].state = "resolved"

----------------------------------------------------------------------------
(* C3: a reply that carries only an error (its result absent) rejects the  *)
(* pending call with exactly that error value, whatever the value is, and  *)
(* never resolves it.                                                      *)
C3_ErrorOnlyRejects ==
    \A c \in DOMAIN calls :
        (/\ HasReply(c)
         /\ Absent(replies[FirstReply(c)].result)
         /\ ~Absent(replies[FirstReply(c)].error)) =>
            /\ calls[c].state = "rejected"
            /\ calls[c].value = replies[FirstReply(c)].error

----------------------------------------------------------------------------
\* Every call on ch was made after the calls on ch before it had settled.
OneAtATime(ch) ==
    \A c1, c2 \in CallsOn(ch) :
        c1 < c2 => (Settled(c1) /\ calls[c1].by <= calls[c2].at)

\* Every reply dispatched on ch's reply channel answers a request.
OnlyAnswersOn(ch) ==
    \A i \in 1..delivered : replies[i].ch = REPLY_BY_CHANNEL[ch] => replies[i].re # 0

(* C4: when an operation is invoked one call at a time (each invocation    *)
(* made after the previous promise settled) and the privileged process     *)
(* answers each request once, in order, every promise is settled by the    *)
(* reply to its own request, as soon as that reply is dispatched, and by   *)
(* no other reply.                                                         *)
C4_SequentialCallsCorrelated ==
    \A ch \in RequestResponseChannels :
        (OneAtATime(ch) /\ OnlyAnswersOn(ch)) =>
            \A c \in CallsOn(ch) :
                /\ (OwnReplyDelivered(c) /\ registering # c) => Settled(c)
                /\ Settled(c) => replies[calls[c].by].re = calls[c].req

C4_Witness ==
    \E ch \in RequestResponseChannels :
        /\ OneAtATime(ch) /\ OnlyAnswersOn(ch)
        /\ \E c1, c2 \in CallsOn(ch) :
              /\ c1 < c2 /\ Settled(c1) /\ Settled(c2)
              /\ calls[c1].by = 1 /\ calls[c2].by = 2
              /\ calls[c1].state # calls[c2].state

----------------------------------------------------------------------------
(* C5: the listener of a call is removed once the call has settled, so     *)
(* that whenever no call of an operation is pending no listener is         *)
(* registered on the operation's reply channel.                            *)
C5_NoListenerWithoutPendingCall ==
    \A ch \in RequestResponseChannels :
        (\A c \in CallsOn(ch) : Settled(c)) => Len(listeners[REPLY_BY_CHANNEL[ch]]) = 0

----------------------------------------------------------------------------
(* C6: a promise settles at most once: once it has settled, no later       *)
(* reply, success or error, changes its state or its value.                *)
C6_SettledOnce ==
    [][\A c \in DOMAIN calls : Settled(c) => calls'[c] = calls[c]]_vars

\* A settled call whose listener ran again, on a reply of the other kind.
C6_Witness ==
    \E c \in DOMAIN calls :
        /\ Settled(c)
        /\ \E i \in RepliesHeard(c) :
              /\ i > calls[c].by
              /\ Truthy(replies[i].error) # (calls[c].state = "rejected")

----------------------------------------------------------------------------
(* C7: autostartTaskExist resolves with a boolean: true when the first     *)
(* reply carries no error and a result that is not null or undefined,      *)
(* false when it carries no error and a null or undefined result; never    *)
(* with the result itself.                                                 *)
C7_AutostartStatusIsBoolean ==
    \A c \in CallsOn(Channel.GET_AUTOSTART_STATUS) :
        /\ calls[c].state = "resolved" => calls[c].value \in {"true", "false"}
        /\ (HasReply(c) /\ Absent(replies[FirstReply(c)].error)) =>
              /\ calls[c].state = "resolved"
              /\ calls[c].value =
                    IF replies[FirstReply(c)].result \in {"null", "undefined"}
                    THEN "false" ELSE "true"

C7_Witness ==
    \E c1, c2 \in CallsOn(Channel.GET_AUTOSTART_STATUS) :
        /\ calls[c1].state = "resolved" /\ calls[c1].value = "false"
        /\ calls[c2].state = "resolved" /\ calls[c2].value = "true"
        /\ replies[FirstReply(c2)].result = "0"

----------------------------------------------------------------------------
FireAndForget == {"enableAutostart", "disableAutostart"}

(* C8: enableAutostart and disableAutostart return undefined, create no    *)
(* promise and register no listener, and leave every promise and listener  *)
(* as it was; no call is ever tied to their message.                       *)
C8_FireAndForgetFrame ==
    /\ [](\A i \in DOMAIN trace :
            trace[i].op \in FireAndForget =>
                \A c \in DOMAIN calls : calls[c].req # i)
    /\ [][(/\ Len(trace') = Len(trace) + 1
           /\ trace'[Len(trace')].op \in FireAndForget) =>
              /\ trace'[Len(trace')].ret = "undefined"
              /\ UNCHANGED <<calls, listeners, registering>>]_vars

\* Called while a call was pending with its listener registered, and a
\* message of the privileged process was dispatched as well.
C8_Witness ==
    /\ Len(trace) = 2 /\ trace[2].op \in FireAndForget
    /\ Len(calls) = 1 /\ ~Settled(1)
    /\ Len(listeners[REPLY_BY_CHANNEL[calls[1].ch]]) = 1
    /\ delivered >= 1

----------------------------------------------------------------------------
RequestChannelOf ==
    [enableAutostart    |-> Channel.ENABLE_AUTOSTART,
     disableAutostart   |-> Channel.DISABLE_AUTOSTART,
     autostartTaskExist |-> Channel.GET_AUTOSTART_STATUS,
     getUserSettings    |-> Channel.GET_USER_SETTINGS,
     saveUserSettings   |-> Channel.SAVE_USER_SETTINGS]

(* C9: every invocation of the five operations sends exactly one message,  *)
(* on the operation's own request channel, with the caller's arguments     *)
(* unchanged; dispatching replies sends nothing.                           *)
C9_OneMessagePerInvocation ==
    /\ Len(sent) = Len(trace)
    /\ \A i \in DOMAIN trace :
          /\ sent[i].ch = RequestChannelOf[trace[i].op]
          /\ sent[i].args = trace[i].args

C9_Witness ==
    /\ Len(sent) = 2
    /\ delivered = 2
    /\ \E i \in DOMAIN trace :
          trace[i].op = "getUserSettings" /\ sent[i].args = <<"'theme'">>
    /\ \E i \in DOMAIN trace :
          trace[i].op = "saveUserSettings" /\ sent[i].args = <<"{theme:dark}">>

----------------------------------------------------------------------------
(* C10: a promise settles only in a step that dispatches a reply on its    *)
(* operation's reply channel, after its request was sent; a call that has  *)
(* had no reply dispatched on that channel is pending.                     *)
C10_SettlesOnlyOnDelivery ==
    /\ [](\A c \in DOMAIN calls : Settled(c) => HasReply(c))
    /\ [][\A c \in DOMAIN calls' :
            ((c \in DOMAIN calls => ~Settled(c)) /\ calls'[c].state # "pending") =>
                /\ c \in DOMAIN calls
                /\ calls[c].req \in DOMAIN sent
                /\ delivered' = delivered + 1
                /\ replies[delivered'].ch = REPLY_BY_CHANNEL[calls[c].ch]]_vars

\* One call settled by its reply; another, registered, still pending after
\* every message was dispatched, none of them on its channel.
C10_Witness ==
    \E c1, c2 \in DOMAIN calls :
        /\ Settled(c1) /\ calls[c1].by >= 1
        /\ ~Settled(c2) /\ registering = 0
        /\ delivered = MaxReplies
        /\ ~HasReply(c2)

----------------------------------------------------------------------------
(* C11: saveUserSettings resolves with no value when its first reply       *)
(* carries no error, whatever result the reply carries; and after          *)
(* saveUserSettings({theme: "dark"}) answered without error and then       *)
(* getUserSettings() without a route answered with {theme: "dark"}, the    *)
(* first promise is resolved with no value and the second with             *)
(* {theme: "dark"}.                                                        *)
C11_SaveResolvesWithNoValue ==
    /\ \A c \in CallsOn(Channel.SAVE_USER_SETTINGS) :
          (HasReply(c) /\ Absent(replies[FirstReply(c)].error)) =>
              /\ calls[c].state = "resolved"
              /\ calls[c].value = "undefined"
    /\ (/\ Len(trace) = 2
        /\ trace[1].op = "saveUserSettings" /\ trace[1].args = <<"{theme:dark}">>
        /\ trace[2].op = "getUserSettings" /\ trace[2].args = <<"undefined">>
        /\ HasReply(1) /\ Absent(replies[FirstReply(1)].error)
        /\ HasReply(2) /\ Absent(replies[FirstReply(2)].error)
        /\ replies[FirstReply(2)].result = "{theme:dark}") =>
            /\ calls[1].state = "resolved" /\ calls[1].value = "undefined"
            /\ calls[2].state = "resolved" /\ calls[2].value = "{theme:dark}"

\* The scenario, the save answered with a result that is not passed on.
C11_Witness ==
    /\ Len(trace) = 2
    /\ trace[1].op = "saveUserSettings" /\ trace[1].args = <<"{theme:dark}">>
    /\ trace[2].op = "getUserSettings" /\ trace[2].args = <<"undefined">>
    /\ calls[1].by = 1 /\ calls[2].by = 2
    /\ calls[1].at = 0 /\ calls[2].at = 1
    /\ replies[1].result = "0" /\ Absent(replies[1].error)
    /\ replies[2].result = "{theme:dark}" /\ Absent(replies[2].error)
    /\ calls[1].value = "undefined" /\ calls[2].value = "{theme:dark}"

----------------------------------------------------------------------------
\* Call c's listener is on its reply channel.
Registered(c) == c \in ListenersOf(REPLY_BY_CHANNEL[calls[c].ch])

(* C12: a request-response call sends its request first and registers its *)
(* listener second, in one turn of the event loop: while the call is       *)
(* between the two, its request is sent and its listener is not there, the *)
(* renderer does nothing else and no reply is dispatched; so whenever a    *)
(* reply is dispatched, every call made on its channel has its listener    *)
(* registered.                                                             *)
C12_SendThenRegisterInOneTurn ==
    /\ [](\A c \in DOMAIN calls :
            /\ calls[c].req \in DOMAIN sent
            /\ Registered(c) <=> registering # c)
    /\ [][registering # 0 =>
            /\ UNCHANGED <<calls, sent, trace, delivered>>
            /\ registering' \in {0, registering}]_vars
    /\ [][delivered' # delivered =>
            \A c \in DOMAIN calls :
                REPLY_BY_CHANNEL[calls[c].ch] = replies[delivered'].ch => Registered(c)]_vars

\* The answer to a call's request is already on its way while the call is
\* between send and on; it is dispatched after the listener is registered.
C12_Witness ==
    \E c \in DOMAIN calls :
        /\ Registered(c)
        /\ Settled(c)
        /\ replies[calls[c].by].re = calls[c].req
        /\ \E d \in DOMAIN calls : d # c /\ registering = d
        /\ \E i \in DOMAIN replies :
              i > delivered /\ replies[i].re = calls[registering].req

----------------------------------------------------------------------------
(* C13: a reply that carries both a result and an error rejects the        *)
(* pending call with the error value; the result is ignored and the call   *)
(* is never resolved by that reply, in all three operations.               *)
C13_ErrorTakesPrecedence ==
    \A c \in DOMAIN calls :
        (/\ HasReply(c)
         /\ ~Absent(replies[FirstReply(c)].result)
         /\ ~Absent(replies[FirstReply(c)].error)) =>
            /\ calls[c].state = "rejected"
            /\ calls[c].value = replies[FirstReply(c)].error

----------------------------------------------------------------------------
(* C14: when the privileged process sends one reply for every request and  *)
(* every reply sent is dispatched, every request-response call settles in  *)
(* the end, however the calls of the three operations interleave.          *)
C14_EveryCallSettles ==
    \A c \in 1..MaxSends :
        (c \in DOMAIN calls) ~> (c \in DOMAIN calls /\ Settled(c))

\* Two calls of one operation that were pending together, both settled.
C14_Witness ==
    \E c1, c2 \in DOMAIN calls :
        /\ c1 < c2 /\ calls[c1].ch = calls[c2].ch
        /\ calls[c1].at = calls[c2].at
        /\ Settled(c1) /\ Settled(c2)
        /\ delivered = 2

----------------------------------------------------------------------------
\* Calls c1 and c2 of one operation were pending together: c2 was made
\* when no reply had been dispatched on their channel since c1 was made.
PendingTogether(c1, c2) ==
    /\ c1 < c2
    /\ calls[c1].ch = calls[c2].ch
    /\ \A i \in RepliesHeard(c1) : i > calls[c2].at

(* C15: when two calls of one request-response operation are pending       *)
(* together, the first reply dispatched on their reply channel settles     *)
(* both with the same outcome and later replies settle neither; so a       *)
(* caller can get the answer to the other caller's request.                *)
C15_FirstReplySettlesAllPending ==
    \A c1, c2 \in DOMAIN calls :
        (PendingTogether(c1, c2) /\ HasReply(c2)) =>
            /\ Settled(c1) /\ Settled(c2)
            /\ calls[c1].by = FirstReply(c2)
            /\ calls[c2].by = FirstReply(c2)
            /\ calls[c1].state = calls[c2].state
            /\ calls[c1].value = calls[c2].value

\* Both settled by the answer to the second call's request; the answer to
\* the first call's request, an error, came later and settled neither.
C15_Witness ==
    \E c1, c2 \in DOMAIN calls :
        /\ PendingTogether(c1, c2)
        /\ delivered = 2
        /\ replies[1].re = calls[c2].req /\ replies[2].re = calls[c1].req
        /\ Truthy(replies[2].error) /\ ~Truthy(replies[1].error)
        /\ calls[c1].by = 1 /\ calls[c2].by = 1
        /\ calls[c1].state = "resolved" /\ calls[c2].state = "resolved"

----------------------------------------------------------------------------
\* The three operations have three different reply channels.
ReplyChannelsDistinct == Cardinality(ReplyChannels) = Cardinality(RequestResponseChannels)

(* C16: the reply channels being pairwise distinct, a reply dispatched on  *)
(* the reply channel of one operation leaves every call of a different     *)
(* operation as it was, pending calls included, however the calls and      *)
(* replies of the three operations interleave.                             *)
C16_RepliesIsolatedAcrossOperations ==
    [][(ReplyChannelsDistinct /\ delivered' = delivered + 1) =>
          \A c \in DOMAIN calls :
              replies[delivered'].ch # REPLY_BY_CHANNEL[calls[c].ch] =>
                  calls'[c] = calls[c]]_vars

\* A reply settled the call of its operation; the registered call of
\* another operation, made before, is still pending.
C16_Witness ==
    \E c1, c2 \in DOMAIN calls :
        /\ calls[c1].ch # calls[c2].ch
        /\ Settled(c1)
        /\ calls[c2].at < calls[c1].by
        /\ Registered(c2) /\ ~Settled(c2)

----------------------------------------------------------------------------
MainOrder ==
    <<"wrapConsole", "declareDocumentAsLayeredHitbox", "initStore",
      "registerDocumentEvents", "render">>

Called(f) == \E i \in DOMAIN main.log : main.log[i] = f

(* C17: Main calls wrapConsole, declareDocumentAsLayeredHitbox, initStore, *)
(* registerDocumentEvents and the root's render in this order; initStore   *)
(* is called only once declareDocumentAsLayeredHitbox has completed, and   *)
(* registerDocumentEvents and render only once initStore has completed; if *)
(* either of the two fails or never completes, document events are never   *)
(* registered and the root is never rendered.                              *)
C17_BootstrapOrder ==
    /\ Len(main.log) <= Len(MainOrder)
    /\ \A i \in DOMAIN main.log : main.log[i] = MainOrder[i]
    /\ Called("initStore") => main.hitbox = "resolved"
    /\ (Called("registerDocumentEvents") \/ Called("render")) =>
          (main.hitbox = "resolved" /\ main.store = "resolved")
    /\ (main.listening \/ main.rendered) =>
          (main.hitbox = "resolved" /\ main.store = "resolved")
    /\ \A i \in DOMAIN main.events :
          main.events[i] = "handled" => main.store = "resolved"

\* Main ran to its end; document events came before and after the
\* registration.
C17_Witness ==
    /\ main.pc = "done"
    /\ main.log = MainOrder
    /\ main.rendered
    /\ main.events # <<>>
    /\ main.events[1] = "ignored"
    /\ main.events[Len(main.events)] = "handled"

=============================================================================
